---- MODULE Spec2Model ----
(***************************************************************************)
(* Model of src/src/lib.rs: a Scene of textured quads (Mesh) drawn through *)
(* one pipeline.  The graphics context, the asset loader and the GPU are   *)
(* modelled by what the calls of lib.rs do to them: buffers with their     *)
(* contents, assets with their load state, and the trace of the calls      *)
(* Scene::render makes on the graphics context.                            *)
(*                                                                         *)
(* Floats are fixed-point integers: the f32 value v is the integer         *)
(* v * ONE, so 0.11 is 1100 and -0.0025 is -25.                            *)
(***************************************************************************)
EXTENDS Integers, Sequences, FiniteSets, TLC

\* Number of frames the run loop is followed for.
MaxFrames == 5

\* The fixed-point representation of the float 1.0.
ONE == 10 ^ 4

VARIABLES
  pc,        \* "start": before Scene::new; "running": Scene built; "aborted": an unwrap() panicked
  entries,   \* the arguments of the Mesh::new calls that build the mesh list
  pipelines, \* graphics context: the pipelines built, a pipeline's id is its index
  buffers,   \* graphics context: the buffers built, a buffer's id is its index
  assets,    \* asset loader: the load requests started, an asset's id is its index
  scene,     \* the Scene: [pipeline, meshes]
  frame,     \* number of Scene::render calls made by the run loop
  trace      \* the calls Scene::render made on the graphics context, in order

vars == <<pc, entries, pipelines, buffers, assets, scene, frame, trace>>

----------------------------------------------------------------------------
\* Float arithmetic

Mul(a, b) == (a * b) \div ONE

ZERO == 0 * ONE

\* Quat::IDENTITY: (x, y, z, w) = (0, 0, 0, 1)
QuatIdentity == <<ZERO, ZERO, ZERO, ONE>>

\* Faulty variant: the translation is scaled too (the scale applied after the translation).
MatFromTranslationThenScale(scale, rotation, translation) ==
  << <<scale[1], ZERO, ZERO, ZERO>>,
     <<ZERO, scale[2], ZERO, ZERO>>,
     <<ZERO, ZERO, scale[3], ZERO>>,
     <<Mul(scale[1], translation[1]), Mul(scale[2], translation[2]),
       Mul(scale[3], translation[3]), ONE>> >>

\* glam's Mat4::from_scale_rotation_translation: the rotation's axes, each
\* multiplied by its scale, and the translation as the fourth column.
MatFromScaleRotationTranslation(scale, rotation, translation) ==
  LET x == rotation[1]  y == rotation[2]  z == rotation[3]  w == rotation[4]
      x2 == x + x   y2 == y + y   z2 == z + z
      xx == Mul(x, x2)  xy == Mul(x, y2)  xz == Mul(x, z2)
      yy == Mul(y, y2)  yz == Mul(y, z2)  zz == Mul(z, z2)
      wx == Mul(w, x2)  wy == Mul(w, y2)  wz == Mul(w, z2)
      x_axis == <<ONE - (yy + zz), xy + wz, xz - wy, ZERO>>
      y_axis == <<xy - wz, ONE - (xx + zz), yz + wx, ZERO>>
      z_axis == <<xz + wy, yz - wx, ONE - (xx + yy), ZERO>>
      Scaled(axis, s) == <<Mul(axis[1], s), Mul(axis[2], s), Mul(axis[3], s), Mul(axis[4], s)>>
  IN  << Scaled(x_axis, scale[1]),
         Scaled(y_axis, scale[2]),
         Scaled(z_axis, scale[3]),
         <<translation[1], translation[2], translation[3], ONE>> >>

\* Faulty variant: the rows one after the other (to_rows_array).
ToRowsArray(m) ==
  <<m[1][1], m[2][1], m[3][1], m[4][1]>> \o <<m[1][2], m[2][2], m[3][2], m[4][2]>>
    \o <<m[1][3], m[2][3], m[3][3], m[4][3]>> \o <<m[1][4], m[2][4], m[3][4], m[4][4]>>

\* Mat4::to_cols_array: the four columns one after the other.
ToColsArray(m) == m[1] \o m[2] \o m[3] \o m[4]

\* A mat4 read from 16 floats of a uniform block (column-major).
MatFromColsArray(a) ==
  << SubSeq(a, 1, 4), SubSeq(a, 5, 8), SubSeq(a, 9, 12), SubSeq(a, 13, 16) >>

\* mat4 * vec4 of GLSL: the sum of the columns weighted by the vector.
MatMulVec(m, v) ==
  [r \in 1..4 |-> Mul(m[1][r], v[1]) + Mul(m[2][r], v[2])
                  + Mul(m[3][r], v[3]) + Mul(m[4][r], v[4])]

----------------------------------------------------------------------------
\* The shaders

\* Faulty variant: the shader without the sign flip of a_pos.y.
VertMainNoFlip(model, a_pos, a_uv) ==
  [ v_uv        |-> a_uv,
    gl_Position |-> MatMulVec(model, <<a_pos[1], a_pos[2], a_pos[3], ONE>>) ]

\* main() of VERT
VertMain(model, a_pos, a_uv) ==
  [ v_uv        |-> a_uv,
    gl_Position |-> MatMulVec(model, <<a_pos[1], Mul(a_pos[2], -ONE), a_pos[3], ONE>>) ]

----------------------------------------------------------------------------
\* Mesh

\* VertexInfo: attribute 0 is Float32x3 (positions), attribute 1 is Float32x2 (uvs)
VertexInfo == <<3, 2>>

Vertices ==
  << -ONE, -ONE, ZERO,   ZERO, ZERO,
     -ONE,  ONE, ZERO,   ZERO, ONE,
      ONE,  ONE, ZERO,   ONE,  ONE,
      ONE, -ONE, ZERO,   ONE,  ZERO >>

\* Faulty variant: the second triangle repeats vertex 1 and leaves the diagonal.
IndicesOffDiagonal == <<0, 1, 2, 1, 3, 0>>

Indices == <<0, 1, 2, 2, 3, 0>>

\* The fallible steps of Mesh::new, in the order they run.
MeshSteps == <<"load_asset", "vertex_buffer", "index_buffer", "uniform_buffer">>

StepIndex(step) == CHOOSE k \in 1..Len(MeshSteps) : MeshSteps[k] = step

\* Whether Mesh::new gets past `step` when the call failing is `fail`.
Passes(step, fail) == fail \notin {MeshSteps[k] : k \in 1..StepIndex(step)}

\* Mesh::new on the graphics context `bufs` and the asset loader `ast`; `fail`
\* names the call whose Result is an Err ("none": all succeed).  Gives the
\* mesh (when no unwrap() panicked) and what the calls left behind.
MeshNew(bufs, ast, entry, fail) ==
  LET ast1  == IF Passes("load_asset", fail)
               THEN Append(ast, [path |-> entry.path, state |-> "pending"]) ELSE ast
      bufs1 == IF Passes("vertex_buffer", fail)
               THEN Append(bufs, [kind |-> "vertex", info |-> VertexInfo,
                                  data |-> Vertices, writes |-> 0])
               ELSE bufs
      bufs2 == IF Passes("index_buffer", fail)
               THEN Append(bufs1, [kind |-> "index", info |-> <<>>,
                                   data |-> Indices, writes |-> 0])
               ELSE bufs1
      transformations == MatFromScaleRotationTranslation(entry.scale, QuatIdentity, entry.translation)
      bufs3 == IF Passes("uniform_buffer", fail)
               THEN Append(bufs2, [kind |-> "uniform", info |-> <<>>,
                                   data |-> <<>>, writes |-> 0])
               ELSE bufs2
  IN  [ ok      |-> fail = "none",
        buffers |-> bufs3,
        assets  |-> ast1,
        mesh    |-> [ texture                |-> Len(ast1),
                      vertext_buffer         |-> Len(bufs1),
                      index_buffer           |-> Len(bufs2),
                      transformations_buffer |-> Len(bufs3),
                      transformations        |-> transformations ] ]

\* Asset::lock(): Some(texture) once the asset is loaded, None before.
TextureLock(ast, mesh) == ast[mesh.texture].state = "loaded"

\* Faulty variant: the texture is bound whatever lock() returns.
DrawTextureAlwaysBinds(mesh, pipeline, ast) ==
  << [op |-> "begin", args |-> <<>>],
     [op |-> "set_pipeline", args |-> <<pipeline>>],
     [op |-> "bind_texture", args |-> <<0, mesh.texture>>],
     [op |-> "bind_buffers",
      args |-> <<mesh.vertext_buffer, mesh.index_buffer, mesh.transformations_buffer>>],
     [op |-> "draw", args |-> <<0, 6>>],
     [op |-> "end", args |-> <<>>] >>

\* Faulty variant: the index buffer is bound before the vertex buffer.
DrawTextureIndexFirst(mesh, pipeline, ast) ==
  << [op |-> "begin", args |-> <<>>],
     [op |-> "set_pipeline", args |-> <<pipeline>>] >>
  \o (IF ast[mesh.texture].state = "loaded"
      THEN << [op |-> "bind_texture", args |-> <<0, mesh.texture>>] >>
      ELSE << >>)
  \o << [op |-> "bind_buffers",
         args |-> <<mesh.index_buffer, mesh.vertext_buffer, mesh.transformations_buffer>>],
        [op |-> "draw", args |-> <<0, 6>>],
        [op |-> "end", args |-> <<>>] >>

\* Mesh::draw_texture: the commands of the renderer, as submitted by gfx.render.
DrawTexture(mesh, pipeline, ast) ==
  << [op |-> "begin", args |-> <<>>],
     [op |-> "set_pipeline", args |-> <<pipeline>>] >>
  \o (IF TextureLock(ast, mesh)
      THEN << [op |-> "bind_texture", args |-> <<0, mesh.texture>>] >>
      ELSE << >>)
  \o << [op |-> "bind_buffers",
         args |-> <<mesh.vertext_buffer, mesh.index_buffer, mesh.transformations_buffer>>],
        [op |-> "draw", args |-> <<0, 6>>],
        [op |-> "end", args |-> <<>>] >>

----------------------------------------------------------------------------
\* Scene

\* The pipeline Scene::new builds.
ScenePipeline ==
  [ vertex |-> "VERT", fragment |-> "FRAG", color_blend |-> "NORMAL",
    vertex_info |-> VertexInfo, texture_location |-> <<0, "u_texture">>,
    depth_stencil |-> [write |-> TRUE, compare |-> "Less"] ]

\* The arguments of the two Mesh::new calls of Scene::new.
SceneEntries ==
  << [ path |-> "./assets/icon_ethenium.png",
       scale |-> <<1000, 1100, 1000>>, translation |-> <<-1100, -100, -400>> ],
     [ path |-> "./assets/icon_voice.png",
       scale |-> <<900, 900, 1000>>, translation |-> <<-260, -25, 12>> ] >>

\* The fallible calls of Scene construction: <<0, "pipeline">> is the pipeline
\* build, <<k, step>> is `step` of the k-th Mesh::new, <<0, "none">> is no failure.
FailPoints(es) ==
  {<<0, "none">>, <<0, "pipeline">>}
    \cup {<<k, MeshSteps[j]>> : k \in 1..Len(es), j \in 1..Len(MeshSteps)}

\* Faulty variant: a failed call is swallowed and the construction goes on.
RECURSIVE BuildMeshesIgnoringErr(_, _, _, _)
BuildMeshesIgnoringErr(es, k, st, fail) ==
  IF k > Len(es) THEN st
  ELSE LET r == MeshNew(st.buffers, st.assets, es[k],
                        IF fail[1] = k THEN fail[2] ELSE "none")
       IN  BuildMeshesIgnoringErr(es, k + 1,
                                  [ ok |-> TRUE, buffers |-> r.buffers, assets |-> r.assets,
                                    meshes |-> Append(st.meshes, r.mesh) ],
                                  fail)

\* The elements of the vec! of Scene::new, evaluated in order from the k-th on;
\* the first unwrap() that panics ends the evaluation.
RECURSIVE BuildMeshes(_, _, _, _)
BuildMeshes(es, k, st, fail) ==
  IF k > Len(es) THEN st
  ELSE LET r == MeshNew(st.buffers, st.assets, es[k],
                        IF fail[1] = k THEN fail[2] ELSE "none")
       IN  IF r.ok
           THEN BuildMeshes(es, k + 1,
                            [ ok |-> TRUE, buffers |-> r.buffers, assets |-> r.assets,
                              meshes |-> Append(st.meshes, r.mesh) ],
                            fail)
           ELSE [ ok |-> FALSE, buffers |-> r.buffers, assets |-> r.assets,
                  meshes |-> st.meshes ]

\* gfx.set_buffer_data( buffer, data )
GfxSetBufferData(bufs, buffer, data) ==
  [bufs EXCEPT ![buffer].data = data, ![buffer].writes = @ + 1]

\* The uniform block `model` the GPU reads from a uniform buffer (an unwritten
\* buffer has no floats to read).
ReadUniform(buf) ==
  IF Len(buf.data) = 16 THEN MatFromColsArray(buf.data)
  ELSE <<<<ZERO, ZERO, ZERO, ZERO>>, <<ZERO, ZERO, ZERO, ZERO>>,
         <<ZERO, ZERO, ZERO, ZERO>>, <<ZERO, ZERO, ZERO, ZERO>>>>

\* The vertex with index i (from 0) of a vertex buffer, by its VertexInfo.
FetchVertex(buf, i) ==
  LET stride == buf.info[1] + buf.info[2]
      base   == i * stride
  IN  [ a_pos |-> SubSeq(buf.data, base + 1, base + buf.info[1]),
        a_uv  |-> SubSeq(buf.data, base + buf.info[1] + 1, base + stride) ]

\* What the GPU computes for a submitted pass: the vertex shader's output for
\* each index drawn, from the contents `bound` of the buffers of bind_buffers.
GpuExecute(commands, bound) ==
  LET draw   == CHOOSE k \in 1..Len(commands) : commands[k].op = "draw"
      offset == commands[draw].args[1]
      count  == commands[draw].args[2]
  IN  [ k \in 1..count |->
          LET v == FetchVertex(bound[1], bound[2].data[offset + k])
          IN  VertMain(ReadUniform(bound[3]), v.a_pos, v.a_uv) ]

\* The trace entry of a gfx.set_buffer_data call
WriteEvent(f, buffer, data) ==
  [ frame |-> f, call |-> "set_buffer_data", buffer |-> buffer, data |-> data,
    commands |-> <<>>, bound |-> <<>> ]

\* The trace entry of a gfx.render call: the commands submitted and the
\* contents the buffers they bind have at the submission.
SubmitEvent(f, commands, bufs) ==
  LET bind == CHOOSE k \in 1..Len(commands) : commands[k].op = "bind_buffers"
  IN  [ frame |-> f, call |-> "render", buffer |-> 0, data |-> <<>>,
        commands |-> commands,
        bound |-> [j \in 1..Len(commands[bind].args) |-> bufs[commands[bind].args[j]]] ]

\* Faulty variant: the mesh is drawn before its transform is written.
RenderMeshDrawFirst(mesh, pipeline, ast, f, st) ==
  LET data  == ToColsArray(mesh.transformations)
      tr1   == Append(st.trace, SubmitEvent(f, DrawTexture(mesh, pipeline, ast), st.buffers))
      bufs1 == GfxSetBufferData(st.buffers, mesh.transformations_buffer, data)
      tr2   == Append(tr1, WriteEvent(f, mesh.transformations_buffer, data))
  IN  [buffers |-> bufs1, trace |-> tr2]

\* Faulty variant: the transform is written into the mesh's vertex buffer.
RenderMeshWritesVertexBuffer(mesh, pipeline, ast, f, st) ==
  LET data  == ToColsArray(mesh.transformations)
      bufs1 == GfxSetBufferData(st.buffers, mesh.vertext_buffer, data)
      tr1   == Append(st.trace, WriteEvent(f, mesh.vertext_buffer, data))
      tr2   == Append(tr1, SubmitEvent(f, DrawTexture(mesh, pipeline, ast), bufs1))
  IN  [buffers |-> bufs1, trace |-> tr2]

\* The body of the for loop of Scene::render for one mesh
RenderMesh(mesh, pipeline, ast, f, st) ==
  LET data  == ToColsArray(mesh.transformations)
      bufs1 == GfxSetBufferData(st.buffers, mesh.transformations_buffer, data)
      tr1   == Append(st.trace, WriteEvent(f, mesh.transformations_buffer, data))
      tr2   == Append(tr1, SubmitEvent(f, DrawTexture(mesh, pipeline, ast), bufs1))
  IN  [buffers |-> bufs1, trace |-> tr2]

\* The for loop of Scene::render from the k-th mesh on
RECURSIVE RenderLoop(_, _, _, _, _)
RenderLoop(sc, k, ast, f, st) ==
  IF k > Len(sc.meshes) THEN st
  ELSE RenderLoop(sc, k + 1, ast, f, RenderMesh(sc.meshes[k], sc.pipeline, ast, f, st))

----------------------------------------------------------------------------
\* Actions

NoScene == [pipeline |-> 0, meshes |-> <<>>]

InitRest ==
  /\ pc = "start"
  /\ pipelines = <<>>
  /\ buffers = <<>>
  /\ assets = <<>>
  /\ scene = NoScene
  /\ frame = 0
  /\ trace = <<>>

Init ==
  /\ entries = SceneEntries
  /\ InitRest

\* Scene::new, called once by the run loop; `fail` is the call that fails.
SceneNew(fail) ==
  /\ pc = "start"
  /\ IF fail = <<0, "pipeline">>
     THEN /\ pc' = "aborted"
          /\ UNCHANGED <<pipelines, buffers, assets, scene>>
     ELSE LET r == BuildMeshes(entries, 1,
                               [ ok |-> TRUE, buffers |-> buffers, assets |-> assets,
                                 meshes |-> <<>> ],
                               fail)
          IN  /\ pipelines' = Append(pipelines, ScenePipeline)
              /\ buffers' = r.buffers
              /\ assets' = r.assets
              /\ IF r.ok
                 THEN /\ pc' = "running"
                      /\ scene' = [pipeline |-> Len(pipelines'), meshes |-> r.meshes]
                 ELSE /\ pc' = "aborted"
                      /\ UNCHANGED scene
  /\ UNCHANGED <<entries, frame, trace>>

\* Faulty variant: the frame is rendered only once every texture is loaded.
RenderWaitsForTextures ==
  /\ pc = "running"
  /\ frame < MaxFrames
  /\ \A k \in 1..Len(scene.meshes) : assets[scene.meshes[k].texture].state = "loaded"
  /\ frame' = frame + 1
  /\ \E r \in {RenderLoop(scene, 1, assets, frame + 1, [buffers |-> buffers, trace |-> trace])} :
       /\ buffers' = r.buffers
       /\ trace' = r.trace
  /\ UNCHANGED <<pc, entries, pipelines, assets, scene>>

\* Scene::render, called by the run loop once per frame.
Render ==
  /\ pc = "running"
  /\ frame < MaxFrames
  /\ frame' = frame + 1
  /\ \E r \in {RenderLoop(scene, 1, assets, frame + 1, [buffers |-> buffers, trace |-> trace])} :
       /\ buffers' = r.buffers
       /\ trace' = r.trace
  /\ UNCHANGED <<pc, entries, pipelines, assets, scene>>

\* The asset loader finishes the load of asset a, between two frames.
AssetLoaded(a) ==
  /\ pc = "running"
  /\ assets[a].state = "pending"
  /\ assets' = [assets EXCEPT ![a].state = "loaded"]
  /\ UNCHANGED <<pc, entries, pipelines, buffers, scene, frame, trace>>

Next ==
  \/ \E fail \in FailPoints(entries) : SceneNew(fail)
  \/ Render
  \/ \E a \in 1..Len(assets) : AssetLoaded(a)

Spec == Init /\ [][Next]_vars

\* The run loop calls the draw callback every frame.
FairSpec == Spec /\ WF_vars(Render)

----------------------------------------------------------------------------
\* Unit evaluation: Mesh::new takes any scale and translation, so the same
\* actions are run on mesh lists of one to three entries built from small sets
\* of scales and translations (the two entries of Scene::new among them).

TestScales ==
  { <<ONE, ONE, ONE>>, <<1000, 1100, 1000>>, <<2 * ONE, ONE \div 2, 3 * ONE>> }

TestTranslations ==
  { <<ZERO, ZERO, ZERO>>, <<-260, -25, 12>>, <<ONE, -2 * ONE, ONE \div 4>> }

TestEntry(s, t) == [path |-> "./assets/icon_voice.png", scale |-> s, translation |-> t]

TestEntries ==
  { <<TestEntry(s, t)>> : s \in TestScales, t \in TestTranslations }
    \cup { SceneEntries,
           SceneEntries \o <<TestEntry(<<ONE, ONE, ONE>>, <<ZERO, ZERO, ZERO>>)>> }

HarnessInit ==
  /\ entries \in TestEntries
  /\ InitRest

HarnessSpec == HarnessInit /\ [][Next]_vars

----------------------------------------------------------------------------
\* Reading the trace

Meshes == scene.meshes

OpsOf(commands) == [i \in 1..Len(commands) |-> commands[i].op]

PassWithTexture == <<"begin", "set_pipeline", "bind_texture", "bind_buffers", "draw", "end">>

PassWithoutTexture == <<"begin", "set_pipeline", "bind_buffers", "draw", "end">>

\* The entries of frame f, in order
FrameTrace(tr, f) == SelectSeq(tr, LAMBDA e : e.frame = f)

\* The commands of `commands` with operation `op`, in order
CommandsOf(commands, op) == SelectSeq(commands, LAMBDA c : c.op = op)

\* Whether the trace entry e is a submitted pass that draws mesh
IsDrawOf(e, mesh) ==
  /\ e.call = "render"
  /\ \E c \in 1..Len(e.commands) :
       /\ e.commands[c].op = "bind_buffers"
       /\ e.commands[c].args[3] = mesh.transformations_buffer

IsWriteOf(e, mesh) ==
  /\ e.call = "set_buffer_data"
  /\ e.buffer = mesh.transformations_buffer

HasBind(e) == \E c \in 1..Len(e.commands) : e.commands[c].op = "bind_texture"

Loaded(ast, mesh) == ast[mesh.texture].state = "loaded"

----------------------------------------------------------------------------
\* C1: every draw_texture call made while the mesh's texture is not loaded
\* submits a complete pass without bind_texture; every call made while it is
\* loaded submits the pass with bind_texture on slot 0 of that texture, before
\* the buffers are bound; and a loaded texture stays loaded, so every later
\* draw of the mesh binds it.
C1_DrawStep ==
  frame' = frame + 1 =>
    \A k \in 1..Len(Meshes) :
      LET mesh == Meshes[k]
          new  == {i \in Len(trace) + 1 .. Len(trace') : IsDrawOf(trace'[i], mesh)}
      IN  /\ new # {}
          /\ \A i \in new :
               IF Loaded(assets, mesh)
               THEN /\ OpsOf(trace'[i].commands) = PassWithTexture
                    /\ trace'[i].commands[3].args = <<0, mesh.texture>>
               ELSE OpsOf(trace'[i].commands) = PassWithoutTexture

C1_StaysLoaded ==
  \A a \in 1..Len(assets) :
    assets[a].state = "loaded" => (a <= Len(assets') /\ assets'[a].state = "loaded")

C1_BindIffLoaded == [][C1_DrawStep /\ C1_StaysLoaded]_vars

\* A mesh drawn without its texture in one frame and with it in a later one.
C1_Witness ==
  \E k \in 1..Len(Meshes) : \E i, j \in 1..Len(trace) :
    /\ i < j
    /\ IsDrawOf(trace[i], Meshes[k]) /\ ~HasBind(trace[i])
    /\ IsDrawOf(trace[j], Meshes[k]) /\ HasBind(trace[j])

\* C2: the trace of every frame is write(m1), draw(m1), write(m2), draw(m2),
\* ...: meshes in list order, each mesh's uniform-buffer write right before
\* its own draw and after the draws of the earlier meshes.
C2_WriteThenDrawInOrder ==
  \A f \in 1..frame :
    LET ft == FrameTrace(trace, f)
    IN  /\ Len(ft) = 2 * Len(Meshes)
        /\ \A k \in 1..Len(Meshes) :
             /\ IsWriteOf(ft[2 * k - 1], Meshes[k])
             /\ ft[2 * k - 1].data = ToColsArray(Meshes[k].transformations)
             /\ IsDrawOf(ft[2 * k], Meshes[k])

C2_Witness ==
  /\ frame >= 2
  /\ Len(Meshes) = 2
  /\ Len(FrameTrace(trace, 2)) = 4

\* C3: every submitted pass is begin, set_pipeline, (bind_texture), bind_buffers
\* of the vertex, index and uniform buffer in that order, one draw of 6 indices
\* from offset 0, end; a frame of a scene of n meshes has exactly n submissions
\* and n draw commands.
C3_FixedPassOnePerMesh ==
  /\ \A i \in 1..Len(trace) :
       trace[i].call = "render" =>
         LET cmds == trace[i].commands
             bind == CommandsOf(cmds, "bind_buffers")
             draw == CommandsOf(cmds, "draw")
         IN  /\ OpsOf(cmds) \in {PassWithTexture, PassWithoutTexture}
             /\ Len(bind) = 1
             /\ buffers[bind[1].args[1]].kind = "vertex"
             /\ buffers[bind[1].args[2]].kind = "index"
             /\ buffers[bind[1].args[3]].kind = "uniform"
             /\ Len(draw) = 1
             /\ draw[1].args = <<0, 6>>
             /\ Len(GpuExecute(cmds, trace[i].bound)) = 6
  /\ \A f \in 1..frame :
       LET subs == SelectSeq(FrameTrace(trace, f), LAMBDA e : e.call = "render")
       IN  /\ Len(subs) = Len(Meshes)
           /\ \A k \in 1..Len(subs) : IsDrawOf(subs[k], Meshes[k])

\* One frame of a one-mesh scene: one write, one submission.
C3_Witness ==
  /\ Len(Meshes) = 1
  /\ frame = 1
  /\ Len(trace) = 2
  /\ trace[2].call = "render"

\* C4: no vertex or index buffer is ever written; the uniform buffer of every
\* mesh is written exactly once in every frame, by Scene::render, and no
\* other buffer is.
C4_OnlyUniformWrittenOncePerFrame ==
  /\ \A b \in 1..Len(buffers) :
       buffers[b].kind # "uniform" =>
         /\ buffers[b].writes = 0
         /\ buffers[b].data = (IF buffers[b].kind = "vertex" THEN Vertices ELSE Indices)
  /\ \A i \in 1..Len(trace) :
       trace[i].call = "set_buffer_data" =>
         \E k \in 1..Len(Meshes) : IsWriteOf(trace[i], Meshes[k])
  /\ \A k \in 1..Len(Meshes) :
       /\ buffers[Meshes[k].transformations_buffer].writes = frame
       /\ \A f \in 1..frame :
            Cardinality({i \in 1..Len(trace) :
                           trace[i].frame = f /\ IsWriteOf(trace[i], Meshes[k])}) = 1

C4_Witness ==
  /\ frame = 3
  /\ Len(Meshes) = 2
  /\ buffers[Meshes[2].transformations_buffer].writes = 3

\* C5: a successful Scene::new gives exactly two meshes, the icon_ethenium
\* entry first and the icon_voice entry second, each with the transform of its
\* own scale and translation; the list never changes afterwards.
C5_TwoMeshesInOrder ==
  IF pc = "running"
  THEN /\ Len(Meshes) = 2
       /\ assets[Meshes[1].texture].path = "./assets/icon_ethenium.png"
       /\ Meshes[1].transformations =
            << <<1000, 0, 0, 0>>, <<0, 1100, 0, 0>>, <<0, 0, 1000, 0>>,
               <<-1100, -100, -400, 10000>> >>
       /\ assets[Meshes[2].texture].path = "./assets/icon_voice.png"
       /\ Meshes[2].transformations =
            << <<900, 0, 0, 0>>, <<0, 900, 0, 0>>, <<0, 0, 1000, 0>>,
               <<-260, -25, 12, 10000>> >>
       /\ Meshes[1].texture # Meshes[2].texture
       /\ {Meshes[1].vertext_buffer, Meshes[1].index_buffer, Meshes[1].transformations_buffer}
            \cap {Meshes[2].vertext_buffer, Meshes[2].index_buffer, Meshes[2].transformations_buffer}
            = {}
  ELSE Meshes = <<>>

C5_Witness ==
  /\ pc = "running"
  /\ frame = MaxFrames
  /\ Len(Meshes) = 2

\* C6: the 16 floats written to a mesh's uniform buffer are its transform
\* column-major: scale at positions 0, 5, 10, translation at 12, 13, 14, 1 at
\* 15 and 0 elsewhere (counted from 0); a 4x4 matrix rebuilt column by column
\* from them is the mesh's transform, and is the block the GPU reads.
C6_ColumnMajorRoundTrip ==
  \A i \in 1..Len(trace) : \A k \in 1..Len(Meshes) :
    IsWriteOf(trace[i], Meshes[k]) =>
      LET d == trace[i].data
          s == entries[k].scale
          t == entries[k].translation
      IN  /\ Len(d) = 16
          /\ d[1] = s[1] /\ d[6] = s[2] /\ d[11] = s[3]
          /\ d[13] = t[1] /\ d[14] = t[2] /\ d[15] = t[3]
          /\ d[16] = ONE
          /\ \A j \in (1..16) \ {1, 6, 11, 13, 14, 15, 16} : d[j] = 0
          /\ MatFromColsArray(d) = Meshes[k].transformations
          /\ \A c, r \in 1..4 : d[4 * (c - 1) + r] = Meshes[k].transformations[c][r]
          /\ ReadUniform(buffers[Meshes[k].transformations_buffer]) = Meshes[k].transformations

\* A written transform with three different scale factors and a translation.
C6_Witness ==
  \E i \in 1..Len(trace) :
    /\ trace[i].call = "set_buffer_data"
    /\ Len(trace[i].data) = 16
    /\ trace[i].data[1] # trace[i].data[6]
    /\ trace[i].data[6] # trace[i].data[11]
    /\ trace[i].data[13] # 0
    /\ buffers[trace[i].buffer].data = trace[i].data

\* C7: when a call of Scene construction fails, startup aborts: no Scene is
\* produced, the rest of the construction is not run and nothing is built
\* again, and no frame is ever rendered (no uniform-buffer write, draw or
\* submission); a Scene exists only when every call succeeded.
C7_FailureAbortsStartup ==
  /\ pc = "aborted" =>
       /\ scene = NoScene
       /\ frame = 0
       /\ trace = <<>>
       /\ \A b \in 1..Len(buffers) : buffers[b].writes = 0
       /\ Len(pipelines) <= 1
       /\ Len(assets) <= Len(entries)
       /\ Len(pipelines) + Len(assets) + Len(buffers) < 1 + 4 * Len(entries)
       /\ Len(buffers) <= 3 * Len(assets)
       /\ Len(buffers) >= 3 * (Len(assets) - 1)
  /\ pc = "running" =>
       /\ Len(pipelines) = 1
       /\ Len(assets) = Len(entries)
       /\ Len(buffers) = 3 * Len(entries)
       /\ Len(Meshes) = Len(entries)
  /\ pc = "start" => (frame = 0 /\ trace = <<>>)
  /\ frame > 0 => pc = "running"

\* Startup aborted in the second Mesh::new, after the first mesh was built.
C7_Witness ==
  /\ pc = "aborted"
  /\ Len(assets) = 2
  /\ Len(buffers) = 4

\* C8: rendering never waits for a texture: every frame the run loop starts
\* is rendered with every mesh drawn and submitted, whatever the textures'
\* load states, and a mesh whose texture is still pending has been drawn in
\* every frame so far, each time without a texture bind.
C8_FrameDone(f) ==
  /\ frame >= f
  /\ \A k \in 1..Len(Meshes) :
       \E i \in 1..Len(trace) :
         /\ trace[i].frame = f
         /\ IsDrawOf(trace[i], Meshes[k])
         /\ CommandsOf(trace[i].commands, "draw") # <<>>

C8_PendingDrawnUntextured ==
  \A k \in 1..Len(Meshes) :
    ~Loaded(assets, Meshes[k]) =>
      \A f \in 1..frame :
        \E i \in 1..Len(trace) :
          /\ trace[i].frame = f
          /\ IsDrawOf(trace[i], Meshes[k])
          /\ OpsOf(trace[i].commands) = PassWithoutTexture

C8_NeverWaitsForTexture ==
  /\ [](C8_PendingDrawnUntextured /\ \A f \in 1..frame : C8_FrameDone(f))
  /\ (pc = "running") ~> (frame = MaxFrames /\ \A f \in 1..MaxFrames : C8_FrameDone(f))

\* All frames rendered while the second texture never loaded.
C8_Witness ==
  /\ frame = MaxFrames
  /\ Len(Meshes) = 2
  /\ Loaded(assets, Meshes[1])
  /\ ~Loaded(assets, Meshes[2])
  /\ C8_FrameDone(MaxFrames)

\* C9: every mesh has a vertex buffer of the 4 vertices (-1,-1,0), (-1,1,0),
\* (1,1,0), (1,-1,0) with UVs (0,0), (0,1), (1,1), (1,0) and an index buffer
\* of the 6 indices 0,1,2,2,3,0: every index is one of the 4 vertices, and the
\* two triangles share the diagonal 0-2 and use all four corners of the quad.
C9_QuadGeometry ==
  \A k \in 1..Len(Meshes) :
    LET vb == buffers[Meshes[k].vertext_buffer]
        ib == buffers[Meshes[k].index_buffer]
        stride == vb.info[1] + vb.info[2]
        V(i) == FetchVertex(vb, i)
        t1 == {ib.data[1], ib.data[2], ib.data[3]}
        t2 == {ib.data[4], ib.data[5], ib.data[6]}
    IN  /\ vb.kind = "vertex" /\ ib.kind = "index"
        /\ Len(vb.data) = 4 * stride
        /\ V(0) = [a_pos |-> <<-ONE, -ONE, 0>>, a_uv |-> <<0, 0>>]
        /\ V(1) = [a_pos |-> <<-ONE, ONE, 0>>, a_uv |-> <<0, ONE>>]
        /\ V(2) = [a_pos |-> <<ONE, ONE, 0>>, a_uv |-> <<ONE, ONE>>]
        /\ V(3) = [a_pos |-> <<ONE, -ONE, 0>>, a_uv |-> <<ONE, 0>>]
        /\ ib.data = <<0, 1, 2, 2, 3, 0>>
        /\ Len(ib.data) = 6
        /\ \A j \in 1..Len(ib.data) : ib.data[j] \in 0..3
        /\ Cardinality(t1) = 3 /\ Cardinality(t2) = 3
        /\ t1 \cap t2 = {0, 2}
        /\ t1 \cup t2 = 0..3
        /\ {<<V(i).a_pos[1], V(i).a_pos[2]>> : i \in t1 \cup t2}
             = {-ONE, ONE} \X {-ONE, ONE}

C9_Witness ==
  /\ pc = "running"
  /\ Len(Meshes) = 2
  /\ frame >= 1
  /\ buffers[Meshes[2].index_buffer].data[5] = 3

\* C10: the vertex shader negates the input y and leaves x, z and the UV as
\* they are before it applies the model matrix: each drawn vertex (x, y, z)
\* of a mesh of scale s and translation t comes out at
\* (s.x * x + t.x, -(s.y * y) + t.y, s.z * z + t.z, 1) with its own UV, so
\* under the identity model matrix the vertex of UV (0,0), whose y is -1,
\* comes out at y = +1.
C10_VertexShaderFlipsY ==
  \A i \in 1..Len(trace) : \A k \in 1..Len(Meshes) :
    IsDrawOf(trace[i], Meshes[k]) =>
      LET s == entries[k].scale
          t == entries[k].translation
          out == GpuExecute(trace[i].commands, trace[i].bound)
      IN  /\ Len(out) = Len(Indices)
          /\ \A j \in 1..Len(out) :
               LET v == FetchVertex(buffers[Meshes[k].vertext_buffer], Indices[j])
                   x == v.a_pos[1] \div ONE
                   y == v.a_pos[2] \div ONE
                   z == v.a_pos[3] \div ONE
               IN  /\ out[j].v_uv = v.a_uv
                   /\ out[j].gl_Position =
                        <<s[1] * x + t[1], -(s[2] * y) + t[2], s[3] * z + t[3], ONE>>
                   /\ (s = <<ONE, ONE, ONE>> /\ t = <<0, 0, 0>> /\ v.a_uv = <<0, 0>>)
                        => (v.a_pos[2] = -ONE /\ out[j].gl_Position[2] = ONE)

\* The vertex of UV (0,0) drawn under the identity model matrix.
C10_Witness ==
  \E i \in 1..Len(trace) :
    /\ trace[i].call = "render"
    /\ Len(Meshes) = 1
    /\ entries[1].scale = <<ONE, ONE, ONE>>
    /\ entries[1].translation = <<0, 0, 0>>
    /\ GpuExecute(trace[i].commands, trace[i].bound)[1].v_uv = <<0, 0>>
    /\ GpuExecute(trace[i].commands, trace[i].bound)[1].gl_Position = <<-ONE, ONE, 0, ONE>>

====
